---- MODULE Spec2Model ----
(***************************************************************************)
(* The Sims-Flanagan trajectory leg of keplerian_toolbox                   *)
(* (src/keplerian_toolbox/sims_flanagan/leg.h): the leg's fields, set_leg  *)
(* and the setters, get_throttles_con and get_mismatch_con.                *)
(*                                                                         *)
(* Epochs are whole days (mjd2000), so that every time of the mismatch     *)
(* routine, a multiple of half a day expressed in seconds, is an integer.  *)
(* A double the routine computes is a term: an exact integer <<"i", n>>,   *)
(* a symbolic real <<"s", e>> where the arithmetic leaves the integers     *)
(* (a quotient, a square root, an exponential), or <<"nan", 0>>.           *)
(***************************************************************************)
EXTENDS Integers, Sequences, FiniteSets

VARIABLES t_i, x_i, throttles, t_f, x_f, sc, mu, configured, result

vars == <<t_i, x_i, throttles, t_f, x_f, sc, mu, configured, result>>

leg == <<t_i, x_i, throttles, t_f, x_f, sc, mu>>

-----------------------------------------------------------------------------
(* Bounds of the model *)

MaxEpoch == 1

MaxMu == 1

MaxSeg == 3

(* Program constants *)

MismatchSize == 7

ASTRO_DAY2SEC == 86400

-----------------------------------------------------------------------------
(* Input domains *)

Epochs == 0..MaxEpoch

Mus == (-1)..MaxMu

StateA == [r |-> <<1, 0, 0>>, v |-> <<0, 1, 0>>, m |-> 1000]

StateB == [r |-> <<0, 1, 0>>, v |-> <<-1, 0, 0>>, m |-> 900]

States == {StateA, StateB}

Spacecrafts == {[mass |-> 1000, thrust |-> 1, isp |-> 2000],
                [mass |-> 1500, thrust |-> 2, isp |-> 3000]}

ThrottleValues == << <<2, 0, 0>>, <<1, 0, 0>>, <<0, -1, 1>>, <<0, 0, 0>> >>

Throttle(s, e, val) == [start |-> s, end |-> e, value |-> val]


(* The k-th of n throttle windows: a contiguous grid of one-day segments
   starting at epoch 0, or the same grid in reverse order. *)
Window(layout, n, k) ==
    IF layout = "grid" THEN <<k - 1, k>> ELSE <<n - k, n - k + 1>>

ValueAt(pattern, k) ==
    IF pattern = "zero" THEN <<0, 0, 0>>
    ELSE ThrottleValues[((k - 1) % Len(ThrottleValues)) + 1]

MkThrottles(n, layout, pattern) ==
    [k \in 1..n |-> Throttle(Window(layout, n, k)[1], Window(layout, n, k)[2],
                             ValueAt(pattern, k))]

ThrottleSeqs ==
    {MkThrottles(n, l, p) : n \in 0..MaxSeg, l \in {"grid", "rev"},
                            p \in {"zero", "mix"}}

(* The throttle lists the setters are called with *)
CfgThrottles == {th \in ThrottleSeqs : Len(th) = 0 \/ th = MkThrottles(1, "grid", "mix")}

-----------------------------------------------------------------------------
(* What the last call returned to its caller *)

NoTrace == [fwd |-> <<>>, back |-> <<>>, t_fwd |-> 0, t_back |-> 0]

Outcome(op, args, status, what) ==
    [op |-> op, args |-> args, status |-> status, what |-> what, out |-> <<>>,
     trace |-> NoTrace, caller |-> <<>>, retval |-> <<>>]

Returned(op, args) == Outcome(op, args, "ok", "")

-----------------------------------------------------------------------------
(* leg::set_leg *)

(* set_leg with the epoch check moved after the assignments *)
set_leg_check_after_assign(epoch_i, state_i, ths, epoch_f, state_f, mu_) ==
    /\ t_i' = epoch_i
    /\ x_i' = state_i
    /\ t_f' = epoch_f
    /\ x_f' = state_f
    /\ throttles' = ths
    /\ IF epoch_f <= epoch_i
       THEN /\ result' = Outcome("set_leg", <<epoch_i, epoch_f, mu_>>, "value_error",
                                 "Final epoch is before initial epoch")
            /\ UNCHANGED <<mu, configured>>
       ELSE IF mu_ <= 0
       THEN /\ result' = Outcome("set_leg", <<epoch_i, epoch_f, mu_>>, "value_error",
                                 "Gravitational constant is less or equal to zero")
            /\ UNCHANGED <<mu, configured>>
       ELSE /\ mu' = mu_
            /\ configured' = TRUE
            /\ result' = Returned("set_leg", <<epoch_i, epoch_f, mu_>>)
    /\ UNCHANGED sc

(* set_leg with mu assigned before it is checked *)
set_leg_mu_before_check(epoch_i, state_i, ths, epoch_f, state_f, mu_) ==
    IF epoch_f <= epoch_i
    THEN /\ result' = Outcome("set_leg", <<epoch_i, epoch_f, mu_>>, "value_error",
                              "Final epoch is before initial epoch")
         /\ UNCHANGED <<leg, configured>>
    ELSE /\ t_i' = epoch_i
         /\ x_i' = state_i
         /\ t_f' = epoch_f
         /\ x_f' = state_f
         /\ throttles' = ths
         /\ mu' = mu_
         /\ IF mu_ <= 0
            THEN /\ result' = Outcome("set_leg", <<epoch_i, epoch_f, mu_>>, "value_error",
                                      "Gravitational constant is less or equal to zero")
                 /\ UNCHANGED configured
            ELSE /\ configured' = TRUE
                 /\ result' = Returned("set_leg", <<epoch_i, epoch_f, mu_>>)
         /\ UNCHANGED sc

set_leg(epoch_i, state_i, ths, epoch_f, state_f, mu_) ==
    IF epoch_f <= epoch_i
    THEN /\ result' = Outcome("set_leg", <<epoch_i, epoch_f, mu_>>, "value_error",
                              "Final epoch is before initial epoch")
         /\ UNCHANGED <<leg, configured>>
    ELSE /\ t_i' = epoch_i
         /\ x_i' = state_i
         /\ t_f' = epoch_f
         /\ x_f' = state_f
         /\ throttles' = ths
         /\ IF mu_ <= 0
            THEN /\ result' = Outcome("set_leg", <<epoch_i, epoch_f, mu_>>, "value_error",
                                      "Gravitational constant is less or equal to zero")
                 /\ UNCHANGED <<mu, configured>>
            ELSE /\ mu' = mu_
                 /\ configured' = TRUE
                 /\ result' = Returned("set_leg", <<epoch_i, epoch_f, mu_>>)
         /\ UNCHANGED sc

set_spacecraft(sc_) ==
    /\ sc' = sc_
    /\ result' = Returned("set_spacecraft", <<>>)
    /\ UNCHANGED <<t_i, x_i, throttles, t_f, x_f, mu, configured>>

set_mu(mu_) ==
    /\ mu' = mu_
    /\ result' = Returned("set_mu", <<>>)
    /\ UNCHANGED <<t_i, x_i, throttles, t_f, x_f, sc, configured>>

set_throttles(ths) ==
    /\ throttles' = ths
    /\ result' = Returned("set_throttles", <<>>)
    /\ UNCHANGED <<t_i, x_i, t_f, x_f, sc, mu, configured>>

set_t_i(e) ==
    /\ t_i' = e
    /\ result' = Returned("set_t_i", <<>>)
    /\ UNCHANGED <<x_i, throttles, t_f, x_f, sc, mu, configured>>

set_t_f(e) ==
    /\ t_f' = e
    /\ result' = Returned("set_t_f", <<>>)
    /\ UNCHANGED <<t_i, x_i, throttles, x_f, sc, mu, configured>>

set_x_f(s) ==
    /\ x_f' = s
    /\ result' = Returned("set_x_f", <<>>)
    /\ UNCHANGED <<t_i, x_i, throttles, t_f, sc, mu, configured>>

set_x_i(s) ==
    /\ x_i' = s
    /\ result' = Returned("set_x_i", <<>>)
    /\ UNCHANGED <<t_i, throttles, t_f, x_f, sc, mu, configured>>

-----------------------------------------------------------------------------
(* Doubles as terms *)

I(n) == <<"i", n>>

Sym(e) == <<"s", e>>

NaN == <<"nan", 0>>

(* A slot of an output range the call has not written *)
Unwritten == <<"u", 0>>

IsInt(a) == a[1] = "i"

IsNaN(a) == a[1] = "nan"

IsZero(a) == IsInt(a) /\ a[2] = 0

Neg(a) ==
    IF IsNaN(a) THEN NaN
    ELSE IF IsInt(a) THEN I(-a[2])
    ELSE IF a[2][1] = "neg" THEN a[2][2]
    ELSE Sym(<<"neg", a>>)

Add(a, b) ==
    IF IsNaN(a) \/ IsNaN(b) THEN NaN
    ELSE IF IsInt(a) /\ IsInt(b) THEN I(a[2] + b[2])
    ELSE IF IsZero(a) THEN b
    ELSE IF IsZero(b) THEN a
    ELSE Sym(<<"add", a, b>>)

Sub(a, b) ==
    IF IsNaN(a) \/ IsNaN(b) THEN NaN
    ELSE IF IsInt(a) /\ IsInt(b) THEN I(a[2] - b[2])
    ELSE IF IsZero(b) THEN a
    ELSE Sym(<<"sub", a, b>>)

Mul(a, b) ==
    IF IsNaN(a) \/ IsNaN(b) THEN NaN
    ELSE IF IsInt(a) /\ IsInt(b) THEN I(a[2] * b[2])
    ELSE IF IsZero(a) \/ IsZero(b) THEN I(0)
    ELSE Sym(<<"mul", a, b>>)

(* A symbolic divisor is a mass or ASTRO_G0, never zero *)
Div(a, b) ==
    IF IsNaN(a) \/ IsNaN(b) \/ IsZero(b) THEN NaN
    ELSE IF IsZero(a) THEN I(0)
    ELSE IF IsInt(a) /\ IsInt(b) /\ b[2] > 0 /\ a[2] % b[2] = 0 THEN I(a[2] \div b[2])
    ELSE Sym(<<"div", a, b>>)

Exp(a) ==
    IF IsNaN(a) THEN NaN
    ELSE IF IsZero(a) THEN I(1)
    ELSE Sym(<<"exp", a>>)

Abs(n) == IF n < 0 THEN -n ELSE n

(* array3D_operations: norm, sum, diff *)
norm(a) ==
    IF \E j \in 1..3 : IsNaN(a[j]) THEN NaN
    ELSE IF \A j \in 1..3 : IsInt(a[j])
    THEN IF Cardinality({j \in 1..3 : a[j][2] # 0}) <= 1
         THEN I(Abs(a[1][2]) + Abs(a[2][2]) + Abs(a[3][2]))
         ELSE Sym(<<"sqrt", I(a[1][2] * a[1][2] + a[2][2] * a[2][2] + a[3][2] * a[3][2])>>)
    ELSE Sym(<<"norm", a>>)

sum(a, b) == [j \in 1..3 |-> Add(a[j], b[j])]

diff(a, b) == [j \in 1..3 |-> Sub(a[j], b[j])]

Lift(a) == [j \in 1..3 |-> I(a[j])]

ASTRO_G0 == Sym(<<"ASTRO_G0">>)

-----------------------------------------------------------------------------
(* propagate_lagrangian: the two-body flow of the unit circular orbit, sampled
   every quarter period; a quarter period is half a day at mu = 1 and the
   angular rate grows with mu. The flow composes additively in the elapsed
   time and runs backwards for a negative one. *)

QuarterTurn(r, v) == [r |-> v, v |-> [j \in 1..3 |-> Neg(r[j])]]

RECURSIVE Turns(_, _, _)
Turns(r, v, q) ==
    IF q = 0 THEN [r |-> r, v |-> v]
    ELSE LET p == Turns(r, v, q - 1) IN QuarterTurn(p.r, p.v)

propagate_lagrangian(r, v, dt, mu_) ==
    Turns(r, v, ((mu_ * dt) \div (ASTRO_DAY2SEC \div 2)) % 4)

-----------------------------------------------------------------------------
(* leg::get_throttles_con *)

(* inner_product that drops the initial value *)
RECURSIVE inner_product_without_init(_, _, _)
inner_product_without_init(a, b, init) ==
    IF Len(a) = 0 THEN 0
    ELSE Head(a) * Head(b) + inner_product_without_init(Tail(a), Tail(b), init)

RECURSIVE inner_product(_, _, _)
inner_product(a, b, init) ==
    IF Len(a) = 0 THEN init
    ELSE inner_product(Tail(a), Tail(b), init + Head(a) * Head(b))

Blank(len) == [k \in 1..len |-> Unwritten]

RECURSIVE ThrottlesConLoop(_, _)
ThrottlesConLoop(i, out) ==
    IF i = Len(out) THEN out
    ELSE LET t == throttles[i + 1].value
         IN ThrottlesConLoop(i + 1, [out EXCEPT ![i + 1] = I(inner_product(t, t, -1))])

(* get_throttles_con that rejects only a range shorter than the throttles *)
get_throttles_con_accepts_longer(len) ==
    /\ IF len < Len(throttles)
       THEN result' = [Outcome("get_throttles_con", <<len>>, "value_error",
                               "Iterators distance is incompatible with the throttles size")
                       EXCEPT !.out = Blank(len)]
       ELSE result' = [Returned("get_throttles_con", <<len>>)
                       EXCEPT !.out = ThrottlesConLoop(0, Blank(Len(throttles)))
                                        \o Blank(len - Len(throttles))]
    /\ UNCHANGED <<leg, configured>>

get_throttles_con(len) ==
    /\ IF len # Len(throttles)
       THEN result' = [Outcome("get_throttles_con", <<len>>, "value_error",
                               "Iterators distance is incompatible with the throttles size")
                       EXCEPT !.out = Blank(len)]
       ELSE result' = [Returned("get_throttles_con", <<len>>)
                       EXCEPT !.out = ThrottlesConLoop(0, Blank(len))]
    /\ UNCHANGED <<leg, configured>>

-----------------------------------------------------------------------------
(* leg::get_mismatch_con *)

(* the forward count rounded down *)
n_seg_fwd_floor(n_seg) == n_seg \div 2

n_seg_fwd(n_seg) == (n_seg + 1) \div 2

(* the backward count rounded up *)
n_seg_back_ceil(n_seg) == (n_seg + 1) \div 2

n_seg_back(n_seg) == n_seg \div 2

thrust_duration(th) == (th.end - th.start) * ASTRO_DAY2SEC

(* (start + end) / 2. * ASTRO_DAY2SEC, exact because ASTRO_DAY2SEC is even *)
manouver_time(th) == ((th.start + th.end) * ASTRO_DAY2SEC) \div 2

FwdStep(ths, sc_, mu_, i, st) ==
    LET th == ths[i + 1]
        p == propagate_lagrangian(st.r, st.v, manouver_time(th) - st.t, mu_)
        dv == [j \in 1..3 |->
                 Mul(Mul(Div(I(sc_.thrust), st.m), I(thrust_duration(th))),
                     I(th.value[j]))]
        norm_dv == norm(dv)
    IN [r |-> p.r,
        v |-> sum(p.v, dv),
        m |-> Mul(st.m, Exp(Div(Div(Neg(norm_dv), I(sc_.isp)), ASTRO_G0))),
        t |-> manouver_time(th),
        idx |-> Append(st.idx, i)]

RECURSIVE FwdLoop(_, _, _, _, _, _)
FwdLoop(ths, sc_, mu_, i, n, st) ==
    IF i < n THEN FwdLoop(ths, sc_, mu_, i + 1, n, FwdStep(ths, sc_, mu_, i, st))
    ELSE st

BackStep(ths, sc_, mu_, i, st) ==
    LET k == Len(ths) - i - 1
        th == ths[k + 1]
        p == propagate_lagrangian(st.r, st.v, manouver_time(th) - st.t, mu_)
        dv == [j \in 1..3 |->
                 Mul(Mul(Div(Neg(I(sc_.thrust)), st.m), I(thrust_duration(th))),
                     I(th.value[j]))]
        norm_dv == norm(dv)
    IN [r |-> p.r,
        v |-> sum(p.v, dv),
        m |-> Mul(st.m, Exp(Div(Div(norm_dv, I(sc_.isp)), ASTRO_G0))),
        t |-> manouver_time(th),
        idx |-> Append(st.idx, k)]

RECURSIVE BackLoop(_, _, _, _, _, _)
BackLoop(ths, sc_, mu_, i, n, st) ==
    IF i < n THEN BackLoop(ths, sc_, mu_, i + 1, n, BackStep(ths, sc_, mu_, i, st))
    ELSE st

Start(x, t) ==
    [r |-> Lift(x.r), v |-> Lift(x.v), m |-> I(x.m), t |-> t * ASTRO_DAY2SEC, idx |-> <<>>]

(* Mismatch without the propagation from current_time_fwd to current_time_back *)
Mismatch_without_bridge(ti, xi, ths, tf, xf, sc_, mu_) ==
    LET fwd == FwdLoop(ths, sc_, mu_, 0, n_seg_fwd(Len(ths)), Start(xi, ti))
        back == BackLoop(ths, sc_, mu_, 0, n_seg_back(Len(ths)), Start(xf, tf))
    IN [out |-> diff(fwd.r, back.r) \o diff(fwd.v, back.v) \o <<Sub(fwd.m, back.m)>>,
        trace |-> [fwd |-> fwd.idx, back |-> back.idx,
                   t_fwd |-> fwd.t, t_back |-> back.t]]

(* The body of get_mismatch_con after the assertion: the seven residuals, and
   the indices and final times of the two passes *)
Mismatch(ti, xi, ths, tf, xf, sc_, mu_) ==
    LET fwd == FwdLoop(ths, sc_, mu_, 0, n_seg_fwd(Len(ths)), Start(xi, ti))
        back == BackLoop(ths, sc_, mu_, 0, n_seg_back(Len(ths)), Start(xf, tf))
        p == propagate_lagrangian(fwd.r, fwd.v, back.t - fwd.t, mu_)
    IN [out |-> diff(p.r, back.r) \o diff(p.v, back.v) \o <<Sub(fwd.m, back.m)>>,
        trace |-> [fwd |-> fwd.idx, back |-> back.idx,
                   t_fwd |-> fwd.t, t_back |-> back.t]]

(* The caller's range of len slots after begin[0..6] have been assigned: a
   slot past the end of the range is not the caller's to read *)
Written(len, vals) ==
    [k \in 1..len |-> IF k <= Len(vals) THEN vals[k] ELSE Unwritten]

(* ndebug: the build defines NDEBUG, so assert expands to nothing.
   A failed assertion aborts the process. Writing past the end of a range
   shorter than 7 is undefined: the process overruns the range or crashes. *)
get_mismatch_con(len, ndebug, ub) ==
    LET mm == Mismatch(t_i, x_i, throttles, t_f, x_f, sc, mu)
    IN /\ IF ~ndebug /\ len # MismatchSize
          THEN result' = [Outcome("get_mismatch_con", <<len, ndebug>>, "abort", "end - begin == 7")
                          EXCEPT !.out = Blank(len)]
          ELSE IF len < MismatchSize
          THEN result' = [Outcome("get_mismatch_con", <<len, ndebug>>, ub, "")
                          EXCEPT !.out = Written(len, mm.out), !.trace = mm.trace]
          ELSE result' = [Returned("get_mismatch_con", <<len, ndebug>>)
                          EXCEPT !.out = Written(len, mm.out), !.trace = mm.trace]
       /\ UNCHANGED <<leg, configured>>

(* sc_state::set_state(array7D) on an sc_state held as its seven components *)
set_state(s, a) == a

(* get_mismatch_con(sc_state retval): retval is the callee's copy of the
   argument; the caller's object is not touched *)
get_mismatch_con_sc(arg) ==
    LET tmp == Written(MismatchSize,
                       Mismatch(t_i, x_i, throttles, t_f, x_f, sc, mu).out)
        retval == set_state(arg, tmp)
    IN /\ result' = [Returned("get_mismatch_con_sc", <<>>)
                     EXCEPT !.caller = arg, !.retval = retval]
       /\ UNCHANGED <<leg, configured>>

-----------------------------------------------------------------------------
(* leg::leg() initialises none of the members: the epochs, the states, the
   spacecraft and mu hold any value; the throttle vector is empty. *)
Init ==
    /\ t_i \in Epochs
    /\ t_f \in Epochs
    /\ x_i \in States
    /\ x_f \in States
    /\ throttles = <<>>
    /\ sc \in Spacecrafts
    /\ mu \in Mus
    /\ configured = FALSE
    /\ result = Returned("leg", <<>>)

SetLeg ==
    \E epoch_i \in Epochs, epoch_f \in Epochs, state_i \in States, state_f \in States,
       ths \in CfgThrottles, mu_ \in Mus :
        set_leg(epoch_i, state_i, ths, epoch_f, state_f, mu_)

SetSpacecraft == \E sc_ \in Spacecrafts : set_spacecraft(sc_)

SetMu == \E mu_ \in Mus : set_mu(mu_)

SetThrottles == \E ths \in CfgThrottles : set_throttles(ths)

SetTi == \E e \in Epochs : set_t_i(e)

SetTf == \E e \in Epochs : set_t_f(e)

SetXf == \E s \in States : set_x_f(s)

SetXi == \E s \in States : set_x_i(s)

Next ==
    \/ SetLeg
    \/ SetSpacecraft
    \/ SetMu
    \/ SetThrottles
    \/ SetTi
    \/ SetTf
    \/ SetXf
    \/ SetXi

Spec == Init /\ [][Next]_vars

-----------------------------------------------------------------------------
(* Properties of set_leg and the setters, under Spec *)

(* The epochs and the mu a successful set_leg leaves *)
Valid == t_f > t_i /\ mu > 0

IsSetLeg(r) == r.op = "set_leg"

(* C1: on a configured leg, a set_leg call with end epoch after start epoch
   and mu <= 0 fails with a value error and leaves every field of the leg as
   it was before the call. *)
C1_MuFailureIsAtomic ==
    [][(configured /\ IsSetLeg(result') /\ result'.args[2] > result'.args[1]
          /\ result'.args[3] <= 0)
       => (result'.status = "value_error" /\ leg' = leg)]_vars

(* C2: on a configured leg, a set_leg call with end epoch equal to or earlier
   than start epoch fails with the value error "Final epoch is before initial
   epoch" and leaves every field of the leg unchanged, whatever mu is. *)
C2_TimeOrderFailureIsAtomic ==
    [][(configured /\ IsSetLeg(result') /\ result'.args[2] <= result'.args[1])
       => (/\ result'.status = "value_error"
           /\ result'.what = "Final epoch is before initial epoch"
           /\ leg' = leg)]_vars

C2_Witness ==
    /\ configured
    /\ IsSetLeg(result)
    /\ result.args[2] = result.args[1]
    /\ result.args[3] <= 0
    /\ result.status = "value_error"
    /\ Valid

(* C3 as stated: in every state reached after a successful set_leg, through
   any further set_leg and setter calls, end epoch > start epoch and mu > 0. *)
C3_ValidOnceConfigured == configured => Valid

UncheckedSetters == {"set_t_i", "set_t_f", "set_mu"}

(* C3 amended: every successful set_leg leaves end epoch > start epoch and
   mu > 0, and on a configured leg every later set_leg call, successful or
   failing, and every set_x_i, set_x_f, set_throttles and set_spacecraft call
   preserves that; only set_t_i, set_t_f and set_mu, which store their
   argument unchecked, can break it. *)
C3_ValidUntilUncheckedSetter ==
    [][/\ (IsSetLeg(result') /\ result'.status = "ok") => Valid'
       /\ (configured /\ Valid /\ result'.op \notin UncheckedSetters) => Valid']_vars

C3_Witness ==
    /\ configured
    /\ IsSetLeg(result)
    /\ result.status = "value_error"
    /\ result.args[2] > result.args[1]
    /\ Valid
    /\ <<t_i, t_f>> = <<result.args[1], result.args[2]>>

-----------------------------------------------------------------------------
(* The evaluation calls on a leg the setters have populated. The setters
   validate nothing, so every combination of field values is a leg the
   program can hold. *)

EvalEpochs == 0..MaxSeg

OutLens == 0..(MaxSeg + 1)

MismatchLens == {0, MismatchSize - 1, MismatchSize, MismatchSize + 1}

Array7(x) == Lift(x.r) \o Lift(x.v) \o <<I(x.m)>>

CallerStates == {Array7(x) : x \in States}

(* The evaluation calls are const and each overwrites the whole outcome, so a
   call made after another reaches no state a first call does not reach:
   every behaviour makes one call on its leg. *)
Fresh == result.op = "leg"

InitEval ==
    /\ t_i \in EvalEpochs
    /\ t_f \in EvalEpochs
    /\ x_i \in States
    /\ x_f \in States
    /\ throttles \in ThrottleSeqs
    /\ sc \in Spacecrafts
    /\ mu \in Mus
    /\ configured = FALSE
    /\ result = Returned("leg", <<>>)

(* What the build can make of a write past the end of the range *)
Undefined(len, ndebug) ==
    IF ndebug /\ len < MismatchSize THEN {"overrun", "crash"} ELSE {"defined"}

GetThrottlesCon == Fresh /\ \E len \in OutLens : get_throttles_con(len)

GetMismatchCon ==
    /\ Fresh
    /\ \E len \in MismatchLens, ndebug \in BOOLEAN :
          \E ub \in Undefined(len, ndebug) : get_mismatch_con(len, ndebug, ub)

GetMismatchConSc == Fresh /\ \E arg \in CallerStates : get_mismatch_con_sc(arg)

NextEval ==
    \/ GetThrottlesCon
    \/ GetMismatchCon
    \/ GetMismatchConSc

SpecEval == InitEval /\ [][NextEval]_vars

-----------------------------------------------------------------------------
(* Properties of get_throttles_con, under SpecEval *)

IsThrottlesCon(r) == r.op = "get_throttles_con"

Slots(out) == {k \in 1..Len(out) : out[k] # Unwritten}

(* C4: get_throttles_con on a range whose length differs from the throttle
   count fails with a value error and writes no slot; on a range of exactly
   throttle-count slots it succeeds and writes every one of them. *)
C4_ThrottlesConLength ==
    IsThrottlesCon(result) =>
        /\ Len(result.out) = result.args[1]
        /\ IF result.args[1] # Len(throttles)
           THEN result.status = "value_error" /\ Slots(result.out) = {}
           ELSE result.status = "ok" /\ Slots(result.out) = 1..Len(throttles)

C4_Witness ==
    /\ IsThrottlesCon(result)
    /\ Len(throttles) > 0
    /\ result.args[1] = 0
    /\ result.status = "value_error"

SquaredNorm(val) == val[1] * val[1] + val[2] * val[2] + val[3] * val[3]

(* C5: get_throttles_con writes x^2 + y^2 + z^2 - 1 of the k-th throttle into
   slot k: 0 exactly when the squared norm is 1, positive exactly when it is
   greater than 1, negative exactly when it is less than 1. *)
C5_ThrottlesConValues ==
    (IsThrottlesCon(result) /\ result.status = "ok") =>
        \A k \in 1..Len(throttles) :
            LET val == throttles[k].value
                c == result.out[k]
            IN /\ c = I(val[1] * val[1] + val[2] * val[2] + val[3] * val[3] - 1)
               /\ (c[2] = 0) <=> (SquaredNorm(val) = 1)
               /\ (c[2] > 0) <=> (SquaredNorm(val) > 1)
               /\ (c[2] < 0) <=> (SquaredNorm(val) < 1)

C5_Witness ==
    /\ IsThrottlesCon(result)
    /\ result.status = "ok"
    /\ Len(throttles) = 3
    /\ throttles[1].value = <<2, 0, 0>>
    /\ result.out = <<I(3), I(0), I(1)>>

-----------------------------------------------------------------------------
(* Properties of get_mismatch_con, under SpecEval *)

IsMismatchCon(r) == r.op = "get_mismatch_con"

(* the call ran the two passes *)
Computed(r) == IsMismatchCon(r) /\ r.status # "abort"

(* C6: get_mismatch_con on a range of other than 7 slots fails with a value
   error and writes nothing, whatever the build; on 7 slots it writes the
   residuals of position, velocity and mass. *)
C6_MismatchConLength ==
    (IsMismatchCon(result) /\ Valid) =>
        IF result.args[1] # MismatchSize
        THEN result.status = "value_error" /\ Slots(result.out) = {}
        ELSE result.status = "ok" /\ Slots(result.out) = 1..MismatchSize

(* C7: the forward pass applies throttles 0, 1, .., ceil(n/2)-1 in this
   order, the backward pass n-1, n-2, .., n-floor(n/2) in this order: every
   throttle is applied exactly once, none outside 0..n-1 is read, and an odd
   n gives the forward pass one more segment. *)
C7_PassesPartitionThrottles ==
    Computed(result) =>
        LET n == Len(throttles)
            fwd == result.trace.fwd
            back == result.trace.back
            Idx(q) == {q[k] : k \in 1..Len(q)}
        IN /\ fwd = [k \in 1..Len(fwd) |-> k - 1]
           /\ back = [k \in 1..Len(back) |-> n - k]
           /\ 2 * Len(fwd) \in {n, n + 1}
           /\ 2 * Len(back) \in {n - 1, n}
           /\ Idx(fwd) \cap Idx(back) = {}
           /\ Idx(fwd) \cup Idx(back) = 0..(n - 1)
           /\ Len(fwd) + Len(back) = n
           /\ (n % 2 = 1) => Len(fwd) = Len(back) + 1

C7_Witness ==
    /\ Computed(result)
    /\ Len(throttles) = 3
    /\ result.trace.fwd = <<0, 1>>
    /\ result.trace.back = <<2>>

(* The throttles are temporally ordered and contiguous and span the leg *)
Spanning ==
    LET n == Len(throttles)
    IN /\ n >= 1
       /\ throttles[1].start = t_i
       /\ throttles[n].end = t_f
       /\ \A k \in 1..n : throttles[k].start < throttles[k].end
       /\ \A k \in 1..(n - 1) : throttles[k].end = throttles[k + 1].start

(* C8 as stated: with spanning throttles, an even n makes the two passes end
   at the same time and an odd n makes the forward pass end at or after the
   backward pass. *)
C8_PassesMeet ==
    (Computed(result) /\ Spanning /\ Valid) =>
        IF Len(throttles) % 2 = 0
        THEN result.trace.t_fwd = result.trace.t_back
        ELSE result.trace.t_fwd >= result.trace.t_back

(* C8 amended: with spanning throttles the forward pass ends strictly before
   the backward pass for every n, even or odd, so the bridging propagation
   always has a positive elapsed time. *)
C8_ForwardEndsFirst ==
    (Computed(result) /\ Spanning) => result.trace.t_fwd < result.trace.t_back

C8_Witness ==
    /\ Computed(result)
    /\ Spanning
    /\ Valid
    /\ Len(throttles) = 2
    /\ result.trace.t_fwd = manouver_time(throttles[1])
    /\ result.trace.t_back = manouver_time(throttles[2])

AllZero == \A k \in 1..Len(throttles) : throttles[k].value = <<0, 0, 0>>

(* propagate(start state, end epoch - start epoch) minus the end state, and
   start mass minus end mass *)
CoastResidual ==
    LET p == propagate_lagrangian(Lift(x_i.r), Lift(x_i.v),
                                  (t_f - t_i) * ASTRO_DAY2SEC, mu)
    IN diff(p.r, Lift(x_f.r)) \o diff(p.v, Lift(x_f.v)) \o <<I(x_i.m - x_f.m)>>

Zero7 == [k \in 1..MismatchSize |-> I(0)]

Ran7(r) == Computed(r) /\ r.args[1] = MismatchSize

(* C9 as stated: with only zero-vector throttles the seven residuals are
   those of the leg without throttles. *)
C9_ZeroThrottlesAreCoast ==
    (Ran7(result) /\ AllZero /\ Valid) => result.out = CoastResidual

(* C9 amended: with only zero-vector throttles the residuals are those of the
   leg without throttles when there is at most one throttle; for any number
   of them the mass residual is start mass minus end mass, and all seven are
   zero when the end state is the propagation of the start state with the
   same mass. *)
C9_ZeroThrottlesResidual ==
    (Ran7(result) /\ AllZero) =>
        /\ Len(throttles) <= 1 => result.out = CoastResidual
        /\ result.out[MismatchSize] = I(x_i.m - x_f.m)
        /\ CoastResidual = Zero7 => result.out = Zero7

C9_Witness ==
    /\ Ran7(result)
    /\ AllZero
    /\ Len(throttles) = 3
    /\ Valid
    /\ result.out = Zero7

(* C10: after get_mismatch_con(sc_state) the caller's sc_state holds the seven
   residuals the iterator-range overload writes. *)
C10_CallerReceivesMismatch ==
    (result.op = "get_mismatch_con_sc" /\ Valid) =>
        result.caller = Mismatch(t_i, x_i, throttles, t_f, x_f, sc, mu).out

====
